---- MODULE Spec2Model ----
(***************************************************************************)
(* FinOps AI Copilot: the lazy RAG engine and the chat endpoint            *)
(* (app/rag_core.py, app/api/routes/chat.py), the KPI endpoint             *)
(* (app/api/routes/kpi.py) and the ingestion quality checks                *)
(* (app/ingestion.py).                                                     *)
(*                                                                         *)
(* Requests to POST /api/ask are handled one at a time: ask_ai_copilot is  *)
(* an `async def` coroutine that never awaits, so the event loop runs each *)
(* call (get_rag_chain included) to completion before the next one starts. *)
(* Each request is therefore one action.                                   *)
(***************************************************************************)
EXTENDS Integers, Sequences, FiniteSets, Bags, TLC

VARIABLES
    OLLAMA_BASE_URL,  \* rag_core.py:22, read once at import
    RAG_CHAIN,        \* rag_core.py:28, 0 is None, n > 0 the pipeline built by attempt n
    RAG_ERROR,        \* rag_core.py:29, NoError is None
    VECTOR_STORE,     \* rag_core.py:30, 0 is None, n > 0 the handle opened by attempt n
    chroma,           \* the persisted collection under VECTOR_DB_PATH: labels of its chunks
    initAttempts,     \* history: number of executions of the initialization body
    askCount,         \* history: number of POST /api/ask requests served
    lastAsk,          \* history: what the last POST /api/ask request did and answered
    billing,          \* the billingrecord table, a bag of rows
    kpiOut,           \* the last answer of GET /api/kpi
    df,               \* the DataFrame handed to perform_quality_checks
    cleaned,          \* the DataFrame perform_quality_checks returned
    healthOut,        \* the last answer of GET /api/health
    metaTable,        \* the resourcemetadata table, a bag of rows
    billRefs,         \* the resource_id column of the rows ingest_data persisted
    ingest,           \* the position of the running ingest_data call
    gen               \* what generate_synthetic_data was called with and drew

ragVars == <<OLLAMA_BASE_URL, RAG_CHAIN, RAG_ERROR, VECTOR_STORE, chroma,
             initAttempts, askCount, lastAsk>>
kpiVars == <<billing, kpiOut>>
etlVars == <<df, cleaned>>
healthVars == <<healthOut>>
ingestVars == <<metaTable, billRefs, ingest>>
genVars == <<gen>>
vars == <<ragVars, kpiVars, etlVars, healthVars, ingestVars, genVars>>

\* ------------------------------------------------------------------ bounds
MaxRequests == 4

\* ------------------------------------------------------------- RAG engine
NoError == <<>>
ConfigError == <<"OLLAMA_BASE_URL is missing or incorrect. Must be http://host.docker.internal:11434 in .env.">>
InitError(step) == <<"RAG Initialization Failed", step>>

\* A URL is the sequence of its pieces of text; the unset variable is the
\* empty sequence. The second piece of a set URL is its host.
ExpectedHost == "host.docker.internal"
ExpectedUrl == <<"http://", ExpectedHost, ":11434">>

\* The values OLLAMA_BASE_URL can have: unset, set to another host, set as
\* expected, set to another host with the expected host's name in the path.
UrlValues == {<<>>,
              <<"http://", "localhost", ":11434">>,
              ExpectedUrl,
              <<"http://", "localhost", ":11434/", ExpectedHost>>}

\* `text in url`
Contains(url, text) == \E i \in 1..Len(url) : url[i] = text

\* not (`not OLLAMA_BASE_URL or 'host.docker.internal' not in OLLAMA_BASE_URL`)
UrlUsable(url) == ~(url = <<>> \/ ~Contains(url, ExpectedHost))

\* The calls of the try block that can raise, in program order, and "none".
FailPoints == {"none", "embeddings", "vector_store", "llm", "count",
               "load", "add_documents", "chain"}

\* The chunks load_and_split_data returns carry the label of their document.
TipsLabel == "data/finops_tips.md"
SummaryLabel == "synthetic_data_summary"
NoLabel == "<no source>"

\* What TextLoader(finops_file).load() can do: return the document, raise
\* FileNotFoundError, raise another exception.
TipsOutcomes == {"loaded", "FileNotFoundError", "OtherError"}

\* What the block reading the CSV can do: build the summary, raise.
CsvOutcomes == {"loaded", "Exception"}

\* load_and_split_data: only FileNotFoundError is caught around the tips
\* file, every exception around the CSV. The tips document splits into two
\* chunks, the summary is one chunk.
load_and_split_data(tips, csv) ==
    [raises |-> tips = "OtherError",
     docs |-> (IF tips = "loaded" THEN <<TipsLabel, TipsLabel>> ELSE <<>>)
              \o (IF csv = "loaded" THEN <<SummaryLabel>> ELSE <<>>)]

\* The collection found on disk at process start: empty, or left by an earlier run.
InitialStores == {<<>>, <<TipsLabel, NoLabel>>}

\* Variant guard: a stored error short-circuits too.
AlreadyInitializedOrFailed == RAG_CHAIN # 0 \/ RAG_ERROR # NoError

\* Variant guard: tests the stored error in place of the pipeline.
AlreadyFailed == RAG_ERROR # NoError

\* Variant guard: the cached pipeline is never consulted.
NeverInitialized == FALSE

\* `if RAG_CHAIN:`
AlreadyInitialized == RAG_CHAIN # 0

StepOrder == <<"embeddings", "vector_store", "llm", "count", "load",
               "add_documents", "chain">>

StepIndex(step) == CHOOSE i \in 1..Len(StepOrder) : StepOrder[i] = step

\* Variant test: the collection is taken to be empty whatever it holds.
StoreAnySize(coll) == TRUE

\* `if current_count == 0:`
StoreIsEmpty(coll) == Len(coll) = 0

\* "load" runs only on an empty collection (rag_core.py:104) and
\* "add_documents" only when, besides, some document was loaded (rag_core.py:107).
Skipped(step, docs) ==
    \/ step = "load" /\ ~StoreIsEmpty(chroma)
    \/ step = "add_documents" /\ (~StoreIsEmpty(chroma) \/ docs = <<>>)

\* TRUE when the try block has completed `step` before `raising` raises.
Passes(step, raising) ==
    raising = "none" \/ StepIndex(step) < StepIndex(raising)

\* The call that raises in this attempt: a call that is skipped cannot raise,
\* and an exception load_and_split_data lets through surfaces at "load".
Raising(failAt, load) ==
    LET first == IF failAt # "none" /\ ~Skipped(failAt, load.docs)
                 THEN failAt ELSE "none"
    IN  IF load.raises /\ ~Skipped("load", load.docs) /\ Passes("count", first)
        THEN "load" ELSE first

\* get_rag_chain, as a function of the current globals and of what the
\* outside world does in this attempt (failAt: the call that raises, load:
\* what load_and_split_data does): the new globals and the returned pair.
GetRagChain(failAt, load) ==
    IF AlreadyInitialized
    THEN [chain |-> RAG_CHAIN, error |-> RAG_ERROR, store |-> VECTOR_STORE,
          coll |-> chroma, attempts |-> initAttempts,
          ret |-> <<RAG_CHAIN, RAG_ERROR>>]
    ELSE IF ~UrlUsable(OLLAMA_BASE_URL)
    THEN [chain |-> RAG_CHAIN, error |-> ConfigError, store |-> VECTOR_STORE,
          coll |-> chroma, attempts |-> initAttempts + 1,
          ret |-> <<0, ConfigError>>]
    ELSE LET raising == Raising(failAt, load)
             attempt == initAttempts + 1
             store == IF Passes("vector_store", raising) THEN attempt ELSE VECTOR_STORE
             coll == IF Passes("add_documents", raising) /\ StoreIsEmpty(chroma)
                     THEN chroma \o load.docs ELSE chroma
         IN  IF raising # "none"
             THEN [chain |-> RAG_CHAIN, error |-> InitError(raising), store |-> store,
                   coll |-> coll, attempts |-> attempt,
                   ret |-> <<0, InitError(raising)>>]
             ELSE [chain |-> attempt, error |-> RAG_ERROR, store |-> store,
                   coll |-> coll, attempts |-> attempt,
                   ret |-> <<attempt, NoError>>]

\* ------------------------------------------------------------ chat endpoint
\* The retriever's answer: the chunks of the collection it ranks nearest, at
\* most MaxRetrieved of them, in ranking order.
MaxRetrieved == 2

Min(a, b) == IF a < b THEN a ELSE b

Contexts(coll) ==
    LET k == Min(MaxRetrieved, Len(coll))
    IN  {[i \in 1..k |-> coll[p[i]]] :
            p \in {q \in [1..k -> 1..Len(coll)] :
                      \A i, j \in 1..k : i # j => q[i] # q[j]}}

\* doc.metadata.get("source", "Unknown Source")
SourceOf(label) == IF label = NoLabel THEN "Unknown Source" ELSE label

\* Variant: every label is listed once, at its first position.
RECURSIVE SourcesDeduplicated(_)
SourcesDeduplicated(context) ==
    IF context = <<>> THEN <<>>
    ELSE LET n == Len(context)
             rest == SourcesDeduplicated(SubSeq(context, 1, n - 1))
         IN  IF Contains(rest, SourceOf(context[n])) THEN rest
             ELSE Append(rest, SourceOf(context[n]))

Sources(context) == [i \in 1..Len(context) |-> SourceOf(context[i])]

Questions == {"why did spend rise?"}

OfflineResponse(rag_error) ==
    [code |-> 200, status |-> "error", sources |-> <<"N/A">>,
     answer |-> <<"AI System is temporarily offline. Reason", rag_error>>]

SuccessResponse(question, context) ==
    [code |-> 200, status |-> "success", sources |-> Sources(context),
     answer |-> <<"answer", question>>]

ChainErrorResponse ==
    [code |-> 500, status |-> "Internal RAG Chain Error", sources |-> <<>>,
     answer |-> <<>>]

\* Variant test: `if rag_chain is None:`.
NoChainReturned(ret) == ret[1] = 0

\* `if rag_error:`
ErrorReturned(ret) == ret[2] # NoError

\* What rag_chain.invoke can do: raise, or answer from a retrieved context.
\* Invoking None raises inside the try block.
InvokeRaises == [raises |-> TRUE, context |-> <<>>]

InvokeOutcomes(ret, coll) ==
    IF ret[1] = 0 THEN {InvokeRaises}
    ELSE {InvokeRaises} \cup {[raises |-> FALSE, context |-> c] : c \in Contexts(coll)}

\* ask_ai_copilot, given the pair get_rag_chain returned.
AskResponse(question, ret, outcome) ==
    IF ErrorReturned(ret) THEN OfflineResponse(ret[2])
    ELSE IF outcome.raises THEN ChainErrorResponse
    ELSE SuccessResponse(question, outcome.context)

NoAsk ==
    [pre |-> <<0, NoError>>, attempted |-> FALSE, ret |-> <<0, NoError>>,
     invoked |-> 0, raised |-> FALSE,
     failAt |-> "none", tips |-> "loaded", csv |-> "loaded",
     emptyBefore |-> FALSE, context |-> <<>>,
     resp |-> [code |-> 0, status |-> "", sources |-> <<>>, answer |-> <<>>]]

\* POST /api/ask
Ask(question, failAt, tips, csv) ==
    /\ askCount < MaxRequests
    /\ LET g == GetRagChain(failAt, load_and_split_data(tips, csv))
       IN  /\ RAG_CHAIN' = g.chain
           /\ RAG_ERROR' = g.error
           /\ VECTOR_STORE' = g.store
           /\ chroma' = g.coll
           /\ initAttempts' = g.attempts
           /\ \E outcome \in InvokeOutcomes(g.ret, g.coll) :
                lastAsk' = [pre |-> <<RAG_CHAIN, RAG_ERROR>>,
                            attempted |-> g.attempts # initAttempts,
                            ret |-> g.ret,
                            invoked |-> IF ErrorReturned(g.ret) THEN 0 ELSE g.ret[1],
                            raised |-> ~ErrorReturned(g.ret) /\ outcome.raises,
                            failAt |-> failAt, tips |-> tips, csv |-> csv,
                            emptyBefore |-> StoreIsEmpty(chroma),
                            context |-> IF ErrorReturned(g.ret) THEN <<>>
                                        ELSE outcome.context,
                            resp |-> AskResponse(question, g.ret, outcome)]
    /\ askCount' = askCount + 1
    /\ UNCHANGED <<OLLAMA_BASE_URL, kpiVars, etlVars, healthVars, ingestVars, genVars>>

AskRequest ==
    \E question \in Questions, failAt \in FailPoints,
       tips \in TipsOutcomes, csv \in CsvOutcomes :
        Ask(question, failAt, tips, csv)

\* ------------------------------------------------------------ KPI endpoint
\* A billing row, reduced to the columns GET /api/kpi reads. invoice_month is
\* a month number, cost an amount in thousandths of a currency unit, and
\* optimization_score a number of hundredths. Amounts are exact decimals here;
\* the response's round(x, 2) gives hundredths of a currency unit.
MaxMonth == 3
MaxRows == 3

Costs == {0, 4, 120}
Scores == {28, 30}
KpiServices == {"EC2"}

KpiRows ==
    [invoice_month : 1..MaxMonth, service : KpiServices, cost : Costs,
     optimization_score : Scores]

\* The rows of the second data set: six of the services of SERVICES
\* (ingestion.py:16) in the latest month, and costly rows of the first of
\* them in the month before.
MaxTopRows == 7
ServiceOrder == <<"EC2", "S3", "RDS", "Lambda", "EKS", "Azure VM">>
TopServices == {ServiceOrder[i] : i \in 1..Len(ServiceOrder)}

TopRows ==
    [invoice_month : {MaxMonth}, service : TopServices,
     cost : {4, 120}, optimization_score : {30}]
    \cup [invoice_month : {MaxMonth - 1}, service : {ServiceOrder[1]},
          cost : {120}, optimization_score : {30}]

Rows(table) == BagToSet(table)

RECURSIVE SumFn(_)
SumFn(f) ==
    IF DOMAIN f = {} THEN 0
    ELSE LET x == CHOOSE x \in DOMAIN f : TRUE
         IN  f[x] + SumFn([y \in DOMAIN f \ {x} |-> f[y]])

\* The summed expressions: BillingRecord.cost, and
\* BillingRecord.cost * BillingRecord.optimization_score.
Value(r, expr) ==
    IF expr = "cost" THEN r.cost ELSE r.cost * r.optimization_score

\* SELECT func.sum(expr) over the rows in `rows`, each counted as often as
\* the table holds it: <<>> is NULL (no row), <<v>> the sum.
SqlSum(table, rows, expr) ==
    IF rows = {} THEN <<>>
    ELSE <<SumFn([r \in rows |-> table[r] * Value(r, expr)])>>

\* `.one_or_none() or 0.0`
OrZero(result) == IF result = <<>> \/ result[1] = 0 THEN 0 ELSE result[1]

\* round(n / d, 0) for d > 0, ties to even, as Python's round.
RoundDiv(n, d) ==
    LET q == n \div d
        r == n % d
    IN  IF 2 * r < d THEN q
        ELSE IF 2 * r > d THEN q + 1
        ELSE IF q % 2 = 0 THEN q ELSE q + 1

Max(S) == CHOOSE x \in S : \A y \in S : y <= x

\* select(func.max(BillingRecord.invoice_month)): <<>> on an empty table.
LatestMonth(table) ==
    IF Rows(table) = {} THEN <<>>
    ELSE <<Max({r.invoice_month : r \in Rows(table)})>>

\* Variant: the n calendar months ending at the latest one.
RecentCalendarMonths(table, n) ==
    LET months == {r.invoice_month : r \in Rows(table)}
    IN  {m \in months : m > Max(months) - n}

\* SELECT DISTINCT invoice_month ORDER BY invoice_month DESC LIMIT n
RecentMonths(table, n) ==
    LET months == {r.invoice_month : r \in Rows(table)}
    IN  {m \in months : Cardinality({k \in months : k > m}) < n}

RECURSIVE SortedAscending(_)
SortedAscending(S) ==
    IF S = {} THEN <<>>
    ELSE LET m == Max(S) IN Append(SortedAscending(S \ {m}), m)

MonthTotal(table, m) ==
    SqlSum(table, {r \in Rows(table) : r.invoice_month = m}, "cost")[1]

get_last_n_months_spend(table, n) ==
    IF LatestMonth(table) = <<>> THEN <<>>
    ELSE LET recent_months == RecentMonths(table, n)
             ordered == SortedAscending(recent_months)
         IN  IF recent_months = {} THEN <<>>
             ELSE [i \in 1..Len(ordered) |->
                     [month |-> ordered[i],
                      total_cost |-> MonthTotal(table, ordered[i])]]

\* `spend_history[0]['total_cost'] if len(spend_history) > 1 else current_month_spend`
PreviousMonthSpend(spend_history) ==
    IF Len(spend_history) > 1 THEN spend_history[1].total_cost
    ELSE spend_history[Len(spend_history)].total_cost

\* Variant: the trend without the `previous_month_spend == 0` branch.
TrendWithoutZeroGuard(current, previous) ==
    RoundDiv((current - previous) * 10000, IF previous = 0 THEN 1 ELSE previous)

\* monthly_trend_percentage, rounded: hundredths of a percent.
Trend(current, previous) ==
    IF previous = 0 THEN 0
    ELSE RoundDiv((current - previous) * 10000, previous)

\* Variant: the savings query restricted to the current month.
SavingsLatestMonthOnly(table, month) ==
    OrZero(SqlSum(table, {r \in Rows(table) : r.invoice_month = month}, "cost * optimization_score"))

\* sum(cost * optimization_score) over the whole table, in 1e-5 currency units.
Savings(table, month) == OrZero(SqlSum(table, Rows(table), "cost * optimization_score"))

WasteThreshold == 30

\* Variant: the waste query without its invoice_month filter.
WasteAllMonths(table, month) ==
    OrZero(SqlSum(table,
                  {r \in Rows(table) : r.optimization_score < WasteThreshold},
                  "cost"))

\* sum(cost) where optimization_score < 0.3 and invoice_month is the current month.
Waste(table, month) ==
    OrZero(SqlSum(table,
                  {r \in Rows(table) : /\ r.optimization_score < WasteThreshold
                                       /\ r.invoice_month = month},
                  "cost"))

TopLimit == 5

\* Variant: a service's sum without the invoice_month filter.
ServiceTotalAllMonths(table, month, service) ==
    SqlSum(table, {r \in Rows(table) : r.service = service}, "cost")[1]

\* sum(cost) of one service in the month.
ServiceTotal(table, month, service) ==
    SqlSum(table,
           {r \in Rows(table) : r.invoice_month = month /\ r.service = service},
           "cost")[1]

\* WHERE invoice_month = month GROUP BY service
Groups(table, month) ==
    {r.service : r \in {x \in Rows(table) : x.invoice_month = month}}

\* ORDER BY sum(cost) DESC LIMIT limit: every order the database may return,
\* groups of equal sum coming in any order.
RECURSIVE OrderedLimited(_, _, _, _)
OrderedLimited(table, month, groups, limit) ==
    IF limit = 0 \/ groups = {} THEN {<<>>}
    ELSE LET first == {g \in groups : \A h \in groups :
                          ServiceTotal(table, month, h) <= ServiceTotal(table, month, g)}
         IN  UNION {{<<g>> \o rest :
                        rest \in OrderedLimited(table, month, groups \ {g}, limit - 1)} :
                    g \in first}

TopCostDrivers(table, month) ==
    {[i \in 1..Len(order) |->
         [service |-> order[i],
          cost |-> RoundDiv(ServiceTotal(table, month, order[i]), 10)]] :
       order \in OrderedLimited(table, month, Groups(table, month), TopLimit)}

NotFound == [raised |-> TRUE, status_code |-> 404, detail |-> "No billing data found."]

\* The try block of get_kpi_metrics (kpi.py:55-110): what it raises or returns.
\* `drivers` is the answer of the top-5 query.
KpiBody(table, drivers) ==
    LET spend_history == get_last_n_months_spend(table, 2)
    IN  IF spend_history = <<>> THEN NotFound
        ELSE LET current_month_data == spend_history[Len(spend_history)]
                 current_month_spend == current_month_data.total_cost
                 previous_month_spend == PreviousMonthSpend(spend_history)
             IN  [raised |-> FALSE, status_code |-> 200,
                  total_monthly_spend |-> RoundDiv(current_month_spend, 10),
                  savings_opportunities |->
                      RoundDiv(Savings(table, current_month_data.month), 1000),
                  waste_metrics |->
                      RoundDiv(Waste(table, current_month_data.month), 10),
                  monthly_trend_percentage |->
                      Trend(current_month_spend, previous_month_spend),
                  top_5_cost_drivers |-> drivers]

\* The answers the top-5 query can give on this table.
DriverChoices(table) ==
    IF LatestMonth(table) = <<>> THEN {<<>>}
    ELSE TopCostDrivers(table, LatestMonth(table)[1])

\* `except Exception as e:` catches whatever the try block raises,
\* HTTPException included (it derives from Exception), and raises HTTP 500.
InternalError ==
    [raised |-> TRUE, status_code |-> 500,
     detail |-> "Internal server error while fetching KPIs."]

get_kpi_metrics(table, drivers) ==
    LET body == KpiBody(table, drivers)
    IN  IF body.raised THEN InternalError ELSE body

NoKpi == <<>>

\* GET /api/kpi
GetKpi ==
    /\ kpiOut = NoKpi
    /\ \E drivers \in DriverChoices(billing) :
          kpiOut' = get_kpi_metrics(billing, drivers)
    /\ UNCHANGED <<billing, ragVars, etlVars, healthVars, ingestVars, genVars>>

\* The ingestion job commits one more billing row; answers given before it
\* are forgotten.
InsertBilling(row, limit) ==
    /\ BagCardinality(billing) < limit
    /\ billing' = billing (+) SetToBag({row})
    /\ kpiOut' = NoKpi
    /\ UNCHANGED <<ragVars, etlVars, healthVars, ingestVars, genVars>>

InsertKpiRow == \E row \in KpiRows : InsertBilling(row, MaxRows)

\* A service is an opaque key to the queries, so the second data set brings
\* its services in one order: a new service is the next one of ServiceOrder.
InsertTopRow ==
    \E row \in TopRows :
        /\ \A i \in 1..Len(ServiceOrder) :
              (ServiceOrder[i] = row.service /\ i > 1) =>
                  \E r \in DOMAIN billing : r.service = ServiceOrder[i - 1]
        /\ InsertBilling(row, MaxTopRows)

\* ------------------------------------------------- ingestion quality checks
\* A DataFrame row, reduced to the two columns perform_quality_checks reads
\* and one it does not. A nullable cell is <<>> (None / NaN) or <<value>>.
Null == <<>>
MaxDfRows == 2

DfRows ==
    [resource_id : {Null, <<"res-1">>, <<"res-2">>},
     cost : {Null, <<-50>>, <<0>>, <<100>>},
     owner : {Null, <<"alice">>}]

\* Variant: df.dropna(subset=['resource_id']).
DropNaResourceIdOnly(frame) ==
    SelectSeq(frame, LAMBDA r : r.resource_id # Null)

\* df.dropna(subset=['resource_id', 'cost'])
DropNa(frame) ==
    SelectSeq(frame, LAMBDA r : r.resource_id # Null /\ r.cost # Null)

\* (df['cost'] < 0).any(): a comparison with NaN is False.
AnyNegativeCost(frame) ==
    \E i \in 1..Len(frame) : frame[i].cost # Null /\ frame[i].cost[1] < 0

\* Series.clip(lower=0), cell by cell: NaN stays NaN.
ClipLower(cell) ==
    IF cell = Null THEN cell ELSE <<IF cell[1] < 0 THEN 0 ELSE cell[1]>>

perform_quality_checks(frame) ==
    LET kept == DropNa(frame)
    IN  IF AnyNegativeCost(kept)
        THEN [i \in 1..Len(kept) |-> [kept[i] EXCEPT !.cost = ClipLower(@)]]
        ELSE kept

NotCleaned == [ran |-> FALSE, rows |-> <<>>]

\* The caller builds the frame row by row.
AppendDfRow ==
    /\ Len(df) < MaxDfRows
    /\ \E row \in DfRows : df' = Append(df, row)
    /\ cleaned' = NotCleaned
    /\ UNCHANGED <<ragVars, kpiVars, healthVars, ingestVars, genVars>>

\* cleaned_df = perform_quality_checks(df)
QualityChecks ==
    /\ ~cleaned.ran
    /\ cleaned' = [ran |-> TRUE, rows |-> perform_quality_checks(df)]
    /\ UNCHANGED <<df, ragVars, kpiVars, healthVars, ingestVars, genVars>>

\* ---------------------------------------------------------- health endpoint
NoHealth == [code |-> 0, status |-> "", service |-> ""]

\* Variant: the status reports the RAG engine's stored error.
HealthFollowsEngine ==
    [code |-> 200,
     status |-> IF RAG_ERROR # NoError THEN "degraded" ELSE "ok",
     service |-> "finops-copilot-api"]

get_health_status ==
    [code |-> 200, status |-> "ok", service |-> "finops-copilot-api"]

\* GET /api/health
HealthRequest ==
    /\ healthOut' = get_health_status
    /\ UNCHANGED <<ragVars, kpiVars, etlVars, ingestVars, genVars>>

\* ----------------------------------------------------------- ingest_data
\* The database, reduced to the resourcemetadata table (a bag of rows
\* [resource_id, owner]) and to the resource_id column of the billing table.
MaxIngestRuns == 2

\* Rows of a frame that passed the quality checks.
IngestRows ==
    {r \in DfRows : r.resource_id # Null /\ r.cost = <<100>>}

\* Variant: every row is kept.
KeepAllRows(frame) == frame

\* df[[...]].drop_duplicates(subset=['resource_id']): the first row of each
\* resource_id is kept, in order.
RECURSIVE drop_duplicates(_)
drop_duplicates(frame) ==
    IF frame = <<>> THEN <<>>
    ELSE LET n == Len(frame)
             rest == drop_duplicates(SubSeq(frame, 1, n - 1))
         IN  IF \E i \in 1..Len(rest) : rest[i].resource_id = frame[n].resource_id
             THEN rest ELSE Append(rest, frame[n])

\* The ResourceMetadata instances built from metadata_df.
metadata_records(frame) ==
    LET metadata_df == drop_duplicates(frame)
    IN  [i \in 1..Len(metadata_df) |->
            [resource_id |-> metadata_df[i].resource_id[1],
             owner |-> metadata_df[i].owner]]

\* The BillingRecord instances built from df, reduced to their resource_id.
billing_records(frame) ==
    [i \in 1..Len(frame) |-> frame[i].resource_id[1]]

RECURSIVE SeqToBag(_)
SeqToBag(seq) ==
    IF seq = <<>> THEN EmptyBag
    ELSE SeqToBag(Tail(seq)) (+) SetToBag({Head(seq)})

\* resource_id is unique in resourcemetadata: the INSERT of a resource_id that
\* the table holds, or that another new row carries, is refused.
UniqueViolation(table, records) ==
    \/ \E i \in 1..Len(records), r \in BagToSet(table) :
          r.resource_id = records[i].resource_id
    \/ \E i, j \in 1..Len(records) :
          i # j /\ records[i].resource_id = records[j].resource_id

\* What a session.commit() can do besides succeeding.
CommitFailures == {"none", "OperationalError"}

NotIngesting ==
    [pc |-> "idle", runs |-> 0, billing_records |-> <<>>, error |-> "none"]

\* ingest_data up to the first commit: build both lists, add the metadata
\* records and commit them, all of them or none.
IngestMetadata ==
    /\ cleaned.ran
    /\ ingest.pc # "metadata_committed"
    /\ ingest.runs < MaxIngestRuns
    /\ \E failure \in CommitFailures :
         LET records == metadata_records(cleaned.rows)
             error == IF UniqueViolation(metaTable, records)
                      THEN "IntegrityError" ELSE failure
         IN  /\ metaTable' = IF error = "none"
                             THEN metaTable (+) SeqToBag(records) ELSE metaTable
             /\ ingest' = [pc |-> IF error = "none" THEN "metadata_committed"
                                  ELSE "metadata_failed",
                           runs |-> ingest.runs + 1,
                           billing_records |-> billing_records(cleaned.rows),
                           error |-> error]
    /\ UNCHANGED <<billRefs, ragVars, kpiVars, etlVars, healthVars, genVars>>

\* ingest_data from the first commit on: add the billing records and commit.
IngestBilling ==
    /\ ingest.pc = "metadata_committed"
    /\ \E failure \in CommitFailures :
         /\ billRefs' = IF failure = "none"
                        THEN billRefs (+) SeqToBag(ingest.billing_records)
                        ELSE billRefs
         /\ ingest' = [ingest EXCEPT
                          !.pc = IF failure = "none" THEN "done" ELSE "billing_failed",
                          !.error = failure]
    /\ UNCHANGED <<metaTable, ragVars, kpiVars, etlVars, healthVars, genVars>>

\* The caller extends a frame of rows that pass the quality checks.
AppendIngestRow ==
    /\ Len(df) < MaxDfRows
    /\ ingest.pc # "metadata_committed"
    /\ \E row \in IngestRows : df' = Append(df, row)
    /\ cleaned' = NotCleaned
    /\ UNCHANGED <<ragVars, kpiVars, healthVars, ingestVars, genVars>>

\* ------------------------------------------------- generate_synthetic_data
\* A date is a record [year, month, day] of the Gregorian calendar.
MONTHS_HISTORY == 8
MaxGenRecords == 3

START_DATE == [year |-> 2024, month |-> 1, day |-> 1]

IsLeapYear(y) == (y % 4 = 0 /\ y % 100 # 0) \/ y % 400 = 0

DaysInMonth(y, m) ==
    IF m = 2 THEN (IF IsLeapYear(y) THEN 29 ELSE 28)
    ELSE IF m \in {4, 6, 9, 11} THEN 30 ELSE 31

FirstOfNextMonth(d) ==
    IF d.month < 12 THEN [year |-> d.year, month |-> d.month + 1, day |-> 1]
    ELSE [year |-> d.year + 1, month |-> 1, day |-> 1]

\* d + timedelta(days=n), n >= 0
RECURSIVE AddDays(_, _)
AddDays(d, n) ==
    LET left == DaysInMonth(d.year, d.month) - d.day
    IN  IF n <= left THEN [d EXCEPT !.day = @ + n]
        ELSE AddDays(FirstOfNextMonth(d), n - left - 1)

\* [START_DATE + timedelta(days=30 * i) for i in range(months_history)]
Months(months_history) ==
    [i \in 1..months_history |-> AddDays(START_DATE, 30 * (i - 1))]

\* month.replace(day=1)
ReplaceDay(d) == [d EXCEPT !.day = 1]

NotGenerated ==
    [ran |-> FALSE, months_history |-> 0, months |-> <<>>, invoice_month |-> <<>>]

\* generate_synthetic_data(num_records, months_history), reduced to the
\* invoice_month column; picks[i] is what random.choice(months) draws for
\* record i.
generate_synthetic_data(months_history, picks) ==
    LET months == Months(months_history)
    IN  [ran |-> TRUE, months_history |-> months_history, months |-> months,
         invoice_month |-> [i \in 1..Len(picks) |-> ReplaceDay(months[picks[i]])]]

\* One run of the generator of the ingestion job.
Generate ==
    /\ ~gen.ran
    /\ \E months_history \in 1..MONTHS_HISTORY, num_records \in 0..MaxGenRecords :
         \E picks \in [1..num_records -> 1..months_history] :
            gen' = generate_synthetic_data(months_history, picks)
    /\ UNCHANGED <<ragVars, kpiVars, etlVars, healthVars, ingestVars>>

Init ==
    /\ OLLAMA_BASE_URL \in UrlValues
    /\ RAG_CHAIN = 0
    /\ RAG_ERROR = NoError
    /\ VECTOR_STORE = 0
    /\ chroma \in InitialStores
    /\ initAttempts = 0
    /\ askCount = 0
    /\ lastAsk = NoAsk
    /\ billing = EmptyBag
    /\ kpiOut = NoKpi
    /\ df = <<>>
    /\ cleaned = NotCleaned
    /\ healthOut = NoHealth
    /\ metaTable = EmptyBag
    /\ billRefs = EmptyBag
    /\ ingest = NotIngesting
    /\ gen = NotGenerated

Next == AskRequest \/ HealthRequest

Spec == Init /\ [][Next]_vars

\* The KPI endpoint and the ingestion job do not touch the RAG engine: their
\* specifications start from one configuration of it.
InitData ==
    /\ Init
    /\ OLLAMA_BASE_URL = ExpectedUrl
    /\ chroma = <<>>

NextKpi == InsertKpiRow \/ GetKpi

SpecKpi == InitData /\ [][NextKpi]_vars

NextTop == InsertTopRow \/ GetKpi

SpecTop == InitData /\ [][NextTop]_vars

NextEtl == AppendDfRow \/ QualityChecks

SpecEtl == InitData /\ [][NextEtl]_vars

NextIngest == AppendIngestRow \/ QualityChecks \/ IngestMetadata \/ IngestBilling

SpecIngest == InitData /\ [][NextIngest]_vars

NextGen == Generate

SpecGen == InitData /\ [][NextGen]_vars

\* The whole API over a billing table the ingestion job may fill meanwhile.
MaxApiRows == 1

ApiRows ==
    [invoice_month : {MaxMonth}, service : KpiServices, cost : {120},
     optimization_score : {28}]

InsertApiRow == \E row \in ApiRows : InsertBilling(row, MaxApiRows)

NextApi == AskRequest \/ HealthRequest \/ GetKpi \/ InsertApiRow

SpecApi == Init /\ [][NextApi]_vars

\* ------------------------------------------------- properties of the RAG engine
\* The engine is FAILED: an attempt has failed and no pipeline is cached.
Failed == RAG_CHAIN = 0 /\ RAG_ERROR # NoError

AskStep == askCount' # askCount

\* C2 as stated: once an attempt has failed the engine stays FAILED, and every
\* later call returns the stored error without running a new attempt.
C2_FailedIsTerminal ==
    [][Failed => /\ Failed'
                 /\ RAG_ERROR' = RAG_ERROR
                 /\ initAttempts' = initAttempts
                 /\ (AskStep => lastAsk'.ret = <<0, RAG_ERROR>>)]_vars

\* C2 amended: a failed attempt stores its error, but only a cached pipeline
\* short-circuits get_rag_chain. Every call made while the engine is FAILED
\* runs one new initialization attempt; when that attempt fails too the call
\* returns no pipeline and the error this attempt stored, and when it succeeds
\* the call returns the new pipeline and the engine is no longer FAILED.
C2_FailedIsRetried ==
    [][(Failed /\ AskStep) =>
          /\ lastAsk'.attempted
          /\ initAttempts' = initAttempts + 1
          /\ \/ /\ Failed'
                /\ lastAsk'.ret = <<0, RAG_ERROR'>>
             \/ /\ RAG_CHAIN' = initAttempts'
                /\ lastAsk'.ret = <<RAG_CHAIN', NoError>>]_vars

\* A call made while FAILED has run a new attempt, and that attempt succeeded.
C2_Witness ==
    /\ lastAsk.pre[1] = 0 /\ lastAsk.pre[2] # NoError
    /\ lastAsk.attempted
    /\ lastAsk.ret[1] # 0

\* C3 as stated: over all calls at most one execution of the initialization
\* body exists.
C3_AtMostOneAttempt == initAttempts <= 1

\* C3 amended: an initialization attempt is started only by a call that finds
\* no pipeline cached, one attempt per call; so no attempt is started after
\* one has completed successfully, while every call after a failed attempt
\* starts another one.
C3_AttemptOnlyWithoutPipeline ==
    [][initAttempts' # initAttempts =>
          /\ RAG_CHAIN = 0
          /\ AskStep
          /\ initAttempts' = initAttempts + 1]_vars

\* Two attempts have run, the second one succeeded, and a later call ran none.
C3_Witness ==
    /\ initAttempts >= 2
    /\ RAG_CHAIN = initAttempts
    /\ askCount > initAttempts
    /\ ~lastAsk.attempted

IsOffline(resp, reason) ==
    /\ resp.code = 200
    /\ resp.status = "error"
    /\ resp.sources = <<"N/A">>
    /\ resp.answer = <<"AI System is temporarily offline. Reason", reason>>

\* C4 as stated: a request made while the engine is FAILED always gets the
\* degraded 200 answer and never invokes the pipeline.
C4_FailedAlwaysOffline ==
    (lastAsk.pre[1] = 0 /\ lastAsk.pre[2] # NoError) =>
        /\ lastAsk.resp.code = 200
        /\ lastAsk.resp.status = "error"
        /\ lastAsk.resp.sources = <<"N/A">>
        /\ lastAsk.invoked = 0

\* C4 amended: a request whose get_rag_chain call returns an error (made while
\* FAILED, this is the case where the new attempt fails again) completes with
\* HTTP 200, status "error", sources "N/A" and an answer naming the returned
\* reason, without raising and without invoking the pipeline.
C4_ErrorReturnedIsOffline ==
    (askCount > 0 /\ lastAsk.ret[2] # NoError) =>
        /\ IsOffline(lastAsk.resp, lastAsk.ret[2])
        /\ lastAsk.invoked = 0
        /\ ~lastAsk.raised

\* A request made while FAILED whose own attempt failed again.
C4_Witness ==
    /\ lastAsk.pre[1] = 0 /\ lastAsk.pre[2] # NoError
    /\ lastAsk.ret[1] = 0 /\ lastAsk.ret[2] # NoError
    /\ lastAsk.resp.status = "error"

\* C5: when the pipeline of a READY engine raises during one request, that
\* request gets HTTP 500, the engine keeps its pipeline, and the next request
\* invokes that same pipeline.
C5_RaiseLeavesEngineReady ==
    [][(lastAsk.raised /\ lastAsk.ret[1] # 0) =>
          /\ lastAsk.resp.code = 500
          /\ RAG_CHAIN = lastAsk.ret[1]
          /\ (AskStep => /\ RAG_CHAIN' = RAG_CHAIN
                         /\ lastAsk'.invoked = RAG_CHAIN)]_vars

\* ----------------------------------------------- properties of the KPI endpoint
\* Reference quantities of the data set, stated on the multiset of rows.
RECURSIVE BagTotal(_, _, _, _)
BagTotal(table, rows, byCost, byScore) ==
    IF rows = {} THEN 0
    ELSE LET r == CHOOSE r \in rows : TRUE
         IN  table[r] * (IF byCost THEN r.cost ELSE 1)
                      * (IF byScore THEN r.optimization_score ELSE 1)
             + BagTotal(table, rows \ {r}, byCost, byScore)

MonthsPresent == {r.invoice_month : r \in DOMAIN billing}

IsLatest(m) == m \in MonthsPresent /\ \A k \in MonthsPresent : k <= m

RowsOfMonth(m) == {r \in DOMAIN billing : r.invoice_month = m}

LatestRows == {r \in DOMAIN billing : IsLatest(r.invoice_month)}

\* The month whose total is "previous": the second-latest month present, or
\* the latest one when it is the only month.
IsPrevious(m) ==
    /\ m \in MonthsPresent
    /\ IF Cardinality(MonthsPresent) = 1 THEN IsLatest(m)
       ELSE Cardinality({k \in MonthsPresent : k > m}) = 1

Answered == kpiOut # NoKpi

\* C1: GET /api/kpi against an empty billing table answers HTTP 404.
C1_EmptyTableIs404 ==
    (Answered /\ billing = EmptyBag) => kpiOut.status_code = 404

\* C6: on a non-empty data set whose previous month's total cost is exactly 0
\* the request succeeds with monthly_trend_percentage = 0, whatever the
\* current month's total is.
C6_ZeroPreviousGivesZeroTrend ==
    (Answered /\ billing # EmptyBag) =>
        \A m \in MonthsPresent :
            (IsPrevious(m) /\ BagTotal(billing, RowsOfMonth(m), TRUE, FALSE) = 0) =>
                /\ kpiOut.status_code = 200
                /\ kpiOut.monthly_trend_percentage = 0

\* Two months are present, the earlier one totals 0 and the latest one does not.
C6_Witness ==
    /\ Answered
    /\ Cardinality(MonthsPresent) >= 2
    /\ \E m \in MonthsPresent :
          IsPrevious(m) /\ BagTotal(billing, RowsOfMonth(m), TRUE, FALSE) = 0
    /\ BagTotal(billing, LatestRows, TRUE, FALSE) > 0
    /\ kpiOut.status_code = 200
    /\ kpiOut.monthly_trend_percentage = 0

LatestServices == {r.service : r \in LatestRows}

LatestServiceTotal(service) ==
    BagTotal(billing, {r \in LatestRows : r.service = service}, TRUE, FALSE)

\* C7: top_5_cost_drivers has at most 5 entries (all the latest month's
\* services when they are fewer), one per distinct service of the latest
\* invoice month; each entry's cost is the rounded sum of cost over that
\* service's rows of the latest month only; the entries are in non-increasing
\* order of that sum; no service left out has a larger sum than one included.
C7_TopCostDrivers ==
    (Answered /\ billing # EmptyBag) =>
        LET top == kpiOut.top_5_cost_drivers
            included == {top[i].service : i \in 1..Len(top)}
        IN  /\ kpiOut.status_code = 200
            /\ Len(top) <= 5
            /\ Len(top) = Min(5, Cardinality(LatestServices))
            /\ Cardinality(included) = Len(top)
            /\ included \subseteq LatestServices
            /\ \A i \in 1..Len(top) :
                  top[i].cost = RoundDiv(LatestServiceTotal(top[i].service), 10)
            /\ \A i, j \in 1..Len(top) :
                  i < j => LatestServiceTotal(top[i].service)
                             >= LatestServiceTotal(top[j].service)
            /\ \A out \in LatestServices \ included : \A in \in included :
                  LatestServiceTotal(out) <= LatestServiceTotal(in)

\* More than five services have rows in the latest month, two of them with
\* different sums, an earlier month has rows too, and five entries came back.
C7_Witness ==
    /\ Answered
    /\ Cardinality(LatestServices) > 5
    /\ Cardinality(MonthsPresent) > 1
    /\ \E a, b \in LatestServices : LatestServiceTotal(a) < LatestServiceTotal(b)
    /\ Len(kpiOut.top_5_cost_drivers) = 5

LowScore(r) == r.optimization_score < 30

\* C8: waste_metrics is the rounded sum of cost over exactly the rows of the
\* latest invoice month whose optimization_score is strictly below 0.3, and 0
\* when there are none.
C8_WasteIsLatestLowScore ==
    (Answered /\ billing # EmptyBag) =>
        /\ kpiOut.status_code = 200
        /\ kpiOut.waste_metrics =
              RoundDiv(BagTotal(billing, {r \in LatestRows : LowScore(r)}, TRUE, FALSE), 10)

\* The latest month has a costly low-score row and a costly row at score 0.3,
\* and an earlier month has a costly low-score row.
C8_Witness ==
    /\ Answered
    /\ \E r \in LatestRows : LowScore(r) /\ r.cost > 0
    /\ \E r \in LatestRows : ~LowScore(r) /\ r.cost > 0
    /\ \E r \in DOMAIN billing \ LatestRows : LowScore(r) /\ r.cost > 0
    /\ kpiOut.waste_metrics > 0

InsertedOlderRow(r) ==
    /\ billing # EmptyBag
    /\ billing' = billing (+) SetToBag({r})
    /\ \E m \in MonthsPresent : r.invoice_month < m

\* C9: savings_opportunities is the rounded sum of cost x optimization_score
\* over the rows of every invoice month. Adding a row to a month older than
\* the latest one leaves waste_metrics as it was and raises
\* savings_opportunities (by at least 0.01 once the row's cost x score is 0.01
\* or more).
C9_SavingsOverAllMonths ==
    /\ []((Answered /\ billing # EmptyBag) =>
            /\ kpiOut.status_code = 200
            /\ kpiOut.savings_opportunities =
                  RoundDiv(BagTotal(billing, DOMAIN billing, TRUE, TRUE), 1000))
    /\ [][\A r \in KpiRows : InsertedOlderRow(r) =>
            \A before \in DriverChoices(billing), after \in DriverChoices(billing') :
                LET a == get_kpi_metrics(billing, before)
                    b == get_kpi_metrics(billing', after)
                IN  /\ b.waste_metrics = a.waste_metrics
                    /\ b.savings_opportunities >= a.savings_opportunities
                    /\ (r.cost * r.optimization_score >= 1000 =>
                            b.savings_opportunities > a.savings_opportunities)]_vars

\* Rows of an earlier month count in the savings answered, and not in the waste.
C9_Witness ==
    /\ Answered
    /\ Cardinality(MonthsPresent) > 1
    /\ kpiOut.savings_opportunities >
          RoundDiv(BagTotal(billing, LatestRows, TRUE, TRUE), 1000)
    /\ \E r \in DOMAIN billing \ LatestRows : LowScore(r) /\ r.cost >= 100
    /\ kpiOut.waste_metrics = 0

\* ------------------------------------------- properties of the quality checks
KeptPositions == {i \in 1..Len(df) : df[i].resource_id # Null /\ df[i].cost # Null}

\* The position in df of the k-th kept row.
KthKept(k) ==
    CHOOSE i \in KeptPositions : Cardinality({j \in KeptPositions : j <= i}) = k

\* C10: perform_quality_checks returns exactly the input rows whose
\* resource_id and cost are both non-null, in input order, each with its cost
\* replaced by max(cost, 0) and its other fields unchanged; so every output
\* row has cost >= 0 and a non-null resource_id.
C10_QualityChecks ==
    cleaned.ran =>
        /\ Len(cleaned.rows) = Cardinality(KeptPositions)
        /\ \A k \in 1..Len(cleaned.rows) :
              LET in == df[KthKept(k)]
                  out == cleaned.rows[k]
              IN  /\ out.resource_id = in.resource_id
                  /\ out.owner = in.owner
                  /\ out.cost = <<IF in.cost[1] > 0 THEN in.cost[1] ELSE 0>>
                  /\ out.resource_id # Null
                  /\ out.cost[1] >= 0

\* A row with a null resource_id was dropped and a kept row's negative cost
\* came out as 0.
C10_Witness ==
    /\ cleaned.ran
    /\ \E i \in 1..Len(df) : df[i].resource_id = Null
    /\ \E i \in KeptPositions : df[i].cost[1] < 0
    /\ Len(cleaned.rows) = 1
    /\ cleaned.rows[1].cost = <<0>>

\* ------------------------------------------ properties of the health endpoint
\* C11: GET /api/health answers HTTP 200 with {status: "ok", service:
\* "finops-copilot-api"} from every reachable state (billing table empty or
\* not; engine uninitialized, ready or failed) and changes nothing else.
C11_HealthAlwaysOk ==
    /\ [](healthOut # NoHealth =>
            /\ healthOut.code = 200
            /\ healthOut.status = "ok"
            /\ healthOut.service = "finops-copilot-api")
    /\ [][healthOut' # healthOut =>
            UNCHANGED <<ragVars, kpiVars, etlVars, ingestVars, genVars>>]_vars

\* Health was answered with the engine FAILED and the billing table non-empty.
C11_Witness ==
    /\ healthOut # NoHealth
    /\ RAG_CHAIN = 0 /\ RAG_ERROR # NoError
    /\ billing # EmptyBag

\* ------------------------------------------ further properties of the RAG engine
\* C12: a get_rag_chain call that returns a pipeline returns no error with
\* it; so a request made while a pipeline is cached invokes that pipeline and
\* is never answered with the degraded "temporarily offline" response.
C12_PipelineComesWithoutError ==
    askCount > 0 =>
        /\ (lastAsk.ret[1] # 0 => lastAsk.ret[2] = NoError)
        /\ (lastAsk.pre[1] # 0 =>
                /\ lastAsk.invoked = lastAsk.pre[1]
                /\ lastAsk.resp.status # "error")

\* C13: READY is absorbing. Once a pipeline is cached, every later call
\* returns that same pipeline and executes no step of the initialization: no
\* new attempt, no new store handle, no document inserted.
C13_ReadyIsAbsorbing ==
    [][RAG_CHAIN # 0 =>
          /\ RAG_CHAIN' = RAG_CHAIN
          /\ VECTOR_STORE' = VECTOR_STORE
          /\ chroma' = chroma
          /\ initAttempts' = initAttempts
          /\ (AskStep => /\ lastAsk'.ret[1] = RAG_CHAIN
                         /\ ~lastAsk'.attempted)]_vars

\* A call made with a pipeline cached, at a moment when a step of the
\* initialization would have raised, returned the cached pipeline.
C13_Witness ==
    /\ askCount >= 2
    /\ lastAsk.pre[1] # 0
    /\ lastAsk.ret[1] = lastAsk.pre[1]
    /\ ~lastAsk.attempted
    /\ lastAsk.failAt # "none"

\* C14: documents are inserted into the vector store only when it holds no
\* entry, and the insertion leaves it non-empty; so over any sequence of
\* attempts (requests are served one at a time by the event loop) the
\* document set is inserted at most once.
C14_InsertOnlyIntoEmptyStore ==
    [][chroma' # chroma =>
          /\ Len(chroma) = 0
          /\ Len(chroma') > 0
          /\ AskStep
          /\ lastAsk'.attempted]_vars

\* An attempt of this process filled the store, a later attempt failed or
\* not, and the last attempt found the store filled while its files loaded.
C14_Witness ==
    /\ initAttempts >= 2
    /\ chroma # <<>>
    /\ ~Contains(chroma, NoLabel)
    /\ lastAsk.attempted
    /\ ~lastAsk.emptyBefore
    /\ lastAsk.tips = "loaded"
    /\ UrlUsable(OLLAMA_BASE_URL)

\* The host a URL points at.
PointsAtExpectedHost(url) == Len(url) >= 2 /\ url[2] = ExpectedHost

\* C16: when OLLAMA_BASE_URL is unset or does not point at the expected host,
\* a call that finds no pipeline ends FAILED with the configuration error,
\* returns (no pipeline, error), builds no store handle and leaves the
\* collection as it was.
C16_WrongEndpointIsConfigError ==
    [][(AskStep /\ RAG_CHAIN = 0 /\ ~PointsAtExpectedHost(OLLAMA_BASE_URL)) =>
          /\ lastAsk'.ret = <<0, ConfigError>>
          /\ RAG_CHAIN' = 0
          /\ RAG_ERROR' = ConfigError
          /\ VECTOR_STORE' = VECTOR_STORE
          /\ chroma' = chroma]_vars

\* C17: when a file cannot be loaded during an attempt on an empty store and
\* nothing else goes wrong, the attempt ends READY with a cached pipeline; the
\* store stays empty when neither file loaded.
C17_LoadFailureStillReady ==
    (/\ askCount > 0
     /\ lastAsk.attempted
     /\ UrlUsable(OLLAMA_BASE_URL)
     /\ lastAsk.emptyBefore
     /\ lastAsk.failAt = "none"
     /\ (lastAsk.tips # "loaded" \/ lastAsk.csv # "loaded")) =>
        /\ lastAsk.ret[1] # 0
        /\ lastAsk.ret[2] = NoError
        /\ RAG_CHAIN = lastAsk.ret[1]
        /\ ((lastAsk.tips # "loaded" /\ lastAsk.csv # "loaded") => chroma = <<>>)

\* C18: a successful answer lists one label per retrieved chunk, in retrieval
\* order, "Unknown Source" standing for a chunk without label; repeated
\* labels are kept, so there are as many labels as chunks.
C18_OneLabelPerChunk ==
    (askCount > 0 /\ lastAsk.resp.status = "success") =>
        /\ Len(lastAsk.resp.sources) = Len(lastAsk.context)
        /\ \A i \in 1..Len(lastAsk.context) :
              lastAsk.resp.sources[i] =
                  IF lastAsk.context[i] = NoLabel THEN "Unknown Source"
                  ELSE lastAsk.context[i]

\* A successful answer over two retrieved chunks of the same document.
C18_Witness ==
    /\ lastAsk.resp.status = "success"
    /\ Len(lastAsk.context) = 2
    /\ lastAsk.context[1] = lastAsk.context[2]
    /\ lastAsk.resp.sources = <<TipsLabel, TipsLabel>>

\* ------------------------------------- further properties of the KPI endpoint
\* C15: with at least two invoice months present, current is the total cost
\* of the latest month and previous the total cost of the second-latest month
\* present, adjacent in the calendar or not; total_monthly_spend is current
\* and, when previous is not 0, the trend is (current - previous) / previous
\* x 100 (both rounded to 2 decimals). With one month present previous is
\* current and the trend is 0.
C15_CurrentAndPreviousMonths ==
    (Answered /\ billing # EmptyBag) =>
        \A c, p \in MonthsPresent :
            (IsLatest(c) /\ IsPrevious(p)) =>
                LET current == BagTotal(billing, RowsOfMonth(c), TRUE, FALSE)
                    previous == BagTotal(billing, RowsOfMonth(p), TRUE, FALSE)
                IN  /\ kpiOut.status_code = 200
                    /\ kpiOut.total_monthly_spend = RoundDiv(current, 10)
                    /\ (previous # 0 =>
                            kpiOut.monthly_trend_percentage =
                                RoundDiv((current - previous) * 10000, previous))
                    /\ (Cardinality(MonthsPresent) = 1 =>
                            kpiOut.monthly_trend_percentage = 0)

\* The two months present are not adjacent, and the trend between them is not 0.
C15_Witness ==
    /\ Answered
    /\ MonthsPresent = {MaxMonth - 2, MaxMonth}
    /\ BagTotal(billing, RowsOfMonth(MaxMonth - 2), TRUE, FALSE) # 0
    /\ kpiOut.status_code = 200
    /\ kpiOut.monthly_trend_percentage # 0

\* ---------------------------------------------------- properties of ingest_data
MetaIds(table) == {r.resource_id : r \in BagToSet(table)}

InputIds == {cleaned.rows[i].resource_id[1] : i \in 1..Len(cleaned.rows)}

RowsWithId(table, id) ==
    BagCardinality([r \in {q \in BagToSet(table) : q.resource_id = id} |-> table[r]])

\* C19: ingest_data commits the metadata rows before the billing rows and
\* writes exactly one metadata row per distinct resource_id of its input. In
\* every database state of a run, a failed billing commit included, every
\* persisted billing record's resource_id has a metadata row and no two
\* metadata rows share a resource_id.
C19_MetadataBeforeBilling ==
    /\ [](/\ \A id \in BagToSet(billRefs) : id \in MetaIds(metaTable)
          /\ \A id \in MetaIds(metaTable) : RowsWithId(metaTable, id) = 1)
    /\ [][(ingest'.runs # ingest.runs /\ InputIds \cap MetaIds(metaTable) = {}) =>
             /\ ingest'.error # "IntegrityError"
             /\ billRefs' = billRefs
             /\ (ingest'.pc = "metadata_committed" =>
                    /\ MetaIds(metaTable') = MetaIds(metaTable) \cup InputIds
                    /\ \A id \in InputIds : RowsWithId(metaTable', id) = 1)]_vars
    /\ [][billRefs' # billRefs =>
             /\ ingest.pc = "metadata_committed"
             /\ metaTable' = metaTable]_vars

\* Two input rows shared one resource_id, one metadata row was committed for
\* them, and the billing commit failed.
C19_Witness ==
    /\ ingest.pc = "billing_failed"
    /\ Len(cleaned.rows) = 2
    /\ Cardinality(InputIds) = 1
    /\ BagCardinality(metaTable) = 1
    /\ billRefs = EmptyBag

\* ---------------------------------------- properties of generate_synthetic_data
\* The first-of-month dates a record's invoice_month can be.
MonthsDrawnFrom == {ReplaceDay(gen.months[i]) : i \in 1..Len(gen.months)}

\* C20: generate_synthetic_data(num_records, months_history = m) draws every
\* record's invoice_month from m distinct consecutive calendar months starting
\* at January 2024, each a first-of-month date: 8 months for MONTHS_HISTORY =
\* 8, 3 months for months_history = 3.
C20_ConsecutiveMonths ==
    gen.ran =>
        /\ MonthsDrawnFrom =
              {[year |-> 2024, month |-> k, day |-> 1] : k \in 1..gen.months_history}
        /\ Cardinality(MonthsDrawnFrom) = gen.months_history
        /\ \A i \in 1..Len(gen.invoice_month) :
              gen.invoice_month[i] \in MonthsDrawnFrom

====
